---------------------------- MODULE Spec2Model ----------------------------
(***************************************************************************)
(* A model of PGRich (src/pgrich/PGRich.py): the catalog model that main() *)
(* reads from a PostgreSQL session, and the report builder that turns it   *)
(* into a rich.tree.Tree.                                                   *)
(*                                                                         *)
(* Two specifications share the variables:                                 *)
(*   Spec       one run of main(), one action per block of main();         *)
(*   SpecCalls  the tree builders and summarise_roles called directly, on  *)
(*              arguments drawn from bounded sets.                          *)
(***************************************************************************)
EXTENDS Integers, Sequences, FiniteSets, TLC

VARIABLES
    pc,             \* position of main(), or "idle"/"returned" for a direct call
    pgpw_set,       \* whether the PGPW environment variable is set
    connects,       \* the number of calls of psycopg2.connect
    basics,         \* BasicSessionInfo, as far as the report reads it
    roles_list,     \* list[RoleInfo]
    ts_list,        \* list[TablespaceInfo]
    db_list,        \* list[DatabaseInfo], each with its schemas_list
    sc_list,        \* list[SchemaInfo]
    console,        \* what main() itself printed on the console
    reads,          \* the catalog reads issued so far, in order
    fn,             \* the function whose call the last four variables describe
    level,          \* its level argument
    option,         \* its selector kind (specific_item_type / detail_type / option)
    option_detail,  \* its selector name (specific_item / detail / option_detail)
    result          \* what it returned: [raised, tree] or [raised, lines]

vars == <<pc, pgpw_set, connects, basics, roles_list, ts_list, db_list, sc_list, console,
          reads, fn, level, option, option_detail, result>>

-----------------------------------------------------------------------------
(* Bounds of the model.                                                     *)

MaxRoles == 3          \* longest role list
MaxTablespaces == 2    \* longest tablespace list
MaxDatabases == 2      \* longest database list
MaxSchemas == 2        \* longest schema list

-----------------------------------------------------------------------------
(* Strings.  Python compares, lower()s, upper()s and startswith()s strings  *)
(* by code point; Codes gives the code points of every string the model     *)
(* uses as a name or a selector.                                            *)

Codes(s) ==
  CASE s = "" -> <<>>
    [] s = "alice" -> <<97, 108, 105, 99, 101>>
    [] s = "Alice" -> <<65, 108, 105, 99, 101>>
    [] s = "ALICE" -> <<65, 76, 73, 67, 69>>
    [] s = "pg_monitor" -> <<112, 103, 95, 109, 111, 110, 105, 116, 111, 114>>
    [] s = "pg_signal_backend" -> <<112, 103, 95, 115, 105, 103, 110, 97, 108, 95, 98, 97, 99, 107, 101, 110, 100>>
    [] s = "pg_read_all_data" -> <<112, 103, 95, 114, 101, 97, 100, 95, 97, 108, 108, 95, 100, 97, 116, 97>>
    [] s = "pg_write_all_data" -> <<112, 103, 95, 119, 114, 105, 116, 101, 95, 97, 108, 108, 95, 100, 97, 116, 97>>
    [] s = "nonexistent" -> <<110, 111, 110, 101, 120, 105, 115, 116, 101, 110, 116>>
    [] s = "role" -> <<114, 111, 108, 101>>
    [] s = "Role" -> <<82, 111, 108, 101>>
    [] s = "roles" -> <<114, 111, 108, 101, 115>>
    [] s = "ts" -> <<116, 115>>
    [] s = "TS" -> <<84, 83>>
    [] s = "tablespace" -> <<116, 97, 98, 108, 101, 115, 112, 97, 99, 101>>
    [] s = "db" -> <<100, 98>>
    [] s = "database" -> <<100, 97, 116, 97, 98, 97, 115, 101>>
    [] s = "Database" -> <<68, 97, 116, 97, 98, 97, 115, 101>>
    [] s = "pg_default" -> <<112, 103, 95, 100, 101, 102, 97, 117, 108, 116>>
    [] s = "pg_global" -> <<112, 103, 95, 103, 108, 111, 98, 97, 108>>
    [] s = "PG_DEFAULT" -> <<80, 71, 95, 68, 69, 70, 65, 85, 76, 84>>
    [] s = "app" -> <<97, 112, 112>>
    [] s = "App" -> <<65, 112, 112>>
    [] s = "APP" -> <<65, 80, 80>>
    [] s = "app_test" -> <<97, 112, 112, 95, 116, 101, 115, 116>>
    [] s = "postgres" -> <<112, 111, 115, 116, 103, 114, 101, 115>>
    [] s = "pg" -> <<112, 103>>
    [] s = "public" -> <<112, 117, 98, 108, 105, 99>>
    [] s = "pg_catalog" -> <<112, 103, 95, 99, 97, 116, 97, 108, 111, 103>>

\* str.lower() and str.upper(), one code point at a time (ASCII letters).
LowerCh(c) == IF c >= 65 /\ c <= 90 THEN c + 32 ELSE c
UpperCh(c) == IF c >= 97 /\ c <= 122 THEN c - 32 ELSE c
Lower(s) == [i \in 1..Len(Codes(s)) |-> LowerCh(Codes(s)[i])]
Upper(s) == [i \in 1..Len(Codes(s)) |-> UpperCh(Codes(s)[i])]

\* str.startswith(prefix)
StartsWith(s, prefix) ==
    /\ Len(Codes(prefix)) <= Len(Codes(s))
    /\ SubSeq(Codes(s), 1, Len(Codes(prefix))) = Codes(prefix)

\* a < b for Python strings: lexicographic on code points.
RECURSIVE CodesLess(_, _)
CodesLess(a, b) ==
    IF b = <<>> THEN FALSE
    ELSE IF a = <<>> THEN TRUE
    ELSE IF Head(a) # Head(b) THEN Head(a) < Head(b)
    ELSE CodesLess(Tail(a), Tail(b))

StrLess(a, b) == CodesLess(Codes(a), Codes(b))

-----------------------------------------------------------------------------
(* rich.tree.Tree.  A node has a label, a style and children.  Tree.add     *)
(* wraps whatever it is given in a new child node: given a string, the     *)
(* child's label is the string; given a Tree, the child's label is that    *)
(* Tree (kept in inner).  A child added without a style inherits its       *)
(* parent's.                                                                *)

Tree(label, style) ==
    [label |-> label, inner |-> <<>>, style |-> style, children |-> <<>>]

NewTree(label) == Tree(label, "tree")

\* t.add(label), returning t
Add(t, label) ==
    [t EXCEPT !.children = Append(@, Tree(label, t.style))]

\* t.add(label, style=style), returning t
AddStyled(t, label, style) ==
    [t EXCEPT !.children = Append(@, Tree(label, style))]

\* t.add(sub) for a Tree sub, returning t
AddTree(t, sub) ==
    [t EXCEPT !.children =
        Append(@, [label |-> "", inner |-> <<sub>>, style |-> t.style,
                   children |-> <<>>])]

\* child = t.add(label); child.add(l) for l in labels -- returning t
AddWithChildren(t, label, labels) ==
    [t EXCEPT !.children =
        Append(@, [label |-> label, inner |-> <<>>, style |-> t.style,
                   children |-> [i \in 1..Len(labels) |-> Tree(labels[i], t.style)]])]

NoTree == [label |-> "<no tree>", inner |-> <<>>, style |-> "", children |-> <<>>]

Returned(t) == [raised |-> "", tree |-> t]
Raised(exc) == [raised |-> exc, tree |-> NoTree]

-----------------------------------------------------------------------------
(* RoleInfo                                                                 *)

RoleInfo(rolename, is_super_user, can_login) ==
    [name |-> rolename, is_super_user |-> is_super_user, can_login |-> can_login]

\* sorted(l, key=lambda r: r.name): a stable insertion sort on the names.
RECURSIVE InsertByName(_, _)
InsertByName(sorted, r) ==
    IF sorted = <<>> THEN <<r>>
    ELSE IF StrLess(r.name, Head(sorted).name) THEN <<r>> \o sorted
    ELSE <<Head(sorted)>> \o InsertByName(Tail(sorted), r)

RECURSIVE SortFrom(_, _, _)
SortFrom(l, i, sorted) ==
    IF i > Len(l) THEN sorted
    ELSE SortFrom(l, i + 1, InsertByName(sorted, l[i]))

sort_roles_list(l) == SortFrom(l, 1, <<>>)


\* t.add(label) whose only children are the Trees in subs, each wrapped by add
AddWithTrees(t, label, subs) ==
    [t EXCEPT !.children =
        Append(@, [label |-> label, inner |-> <<>>, style |-> t.style,
                   children |-> [i \in 1..Len(subs) |->
                       [label |-> "", inner |-> <<subs[i]>>, style |-> t.style,
                        children |-> <<>>]]])]

\* The string summarise_roles builds, as its lines: one per listed role, then
\* the line counting the unlisted pg roles.
RoleLine(role, current_role) ==
    [name |-> role.name,
     text |-> (IF role.name = current_role
                  THEN "[black on white]" \o role.name \o "[/]"
                  ELSE role.name)
              \o (IF role.can_login THEN " Login" ELSE "")
              \o (IF role.is_super_user THEN " Super-user" ELSE "")]

\* The policy without the exception for roles that log in or are superusers.
include_role_by_name_only(role, current_role) ==
    IF StartsWith(role.name, "pg")
    THEN role.name \in {current_role, "pg_read_all_data", "pg_write_all_data"}
    ELSE TRUE

include_role(role, current_role) ==
    IF StartsWith(role.name, "pg")
    THEN IF role.name \in {current_role, "pg_read_all_data", "pg_write_all_data"}
         THEN TRUE
         ELSE IF role.can_login \/ role.is_super_user
              THEN TRUE
              ELSE FALSE
    ELSE TRUE

RECURSIVE SummariseLoop(_, _, _, _)
SummariseLoop(roles, i, current_role, acc) ==
    IF i > Len(roles) THEN acc
    ELSE LET role == roles[i] IN
         SummariseLoop(roles, i + 1, current_role,
            IF include_role(role, current_role)
            THEN [acc EXCEPT !.lines = Append(@, RoleLine(role, current_role))]
            ELSE [acc EXCEPT !.unlisted_pg_roles_count = @ + 1])

summarise_roles(roles, current_role) ==
    LET acc == SummariseLoop(roles, 1, current_role,
                   [lines |-> <<>>, unlisted_pg_roles_count |-> 0])
        n == acc.unlisted_pg_roles_count
    IN  [raised |-> "",
         lines |-> IF n > 0
                   THEN Append(acc.lines,
                          [name |-> "",
                           text |-> ".. and " \o ToString(n) \o " other pg_xxx role"
                                    \o (IF n > 1 THEN "s" ELSE "")])
                   ELSE acc.lines]

-----------------------------------------------------------------------------
(* get_roles_tree                                                           *)

\* The local variable detail_tree: not assigned before the loop, assigned a
\* Tree by the loop body when a role matches the selector.
DetailTreeBeforeLoop == [state |-> "unbound", tree |-> NoTree]

RolesLoopStart ==
    [super_user_roles |-> <<>>, other_login_roles |-> <<>>, other_roles |-> <<>>,
     detail_tree |-> DetailTreeBeforeLoop,
     specific_item_is_super_user |-> FALSE,
     specific_item_is_login_user |-> FALSE]

\* The priority of the two tests exchanged.
RoleBucketLoginFirst(role) ==
    IF role.can_login THEN "other_login_roles"
    ELSE IF role.is_super_user THEN "super_user_roles"
    ELSE "other_roles"

\* Which of the three lists the loop body appends the role to.
RoleBucket(role) ==
    IF role.is_super_user THEN "super_user_roles"
    ELSE IF role.can_login THEN "other_login_roles"
    ELSE "other_roles"

\* The selector test of the loop body.
RoleMatches(role, lvl, specific_item_type, specific_item) ==
    /\ lvl = "specific"
    /\ Lower(specific_item_type) = Codes("role")
    /\ Lower(specific_item) = Lower(role.name)

RolesLoopBody(acc, role, current_user, lvl, specific_item_type, specific_item) ==
    LET matches == RoleMatches(role, lvl, specific_item_type, specific_item)
        display_name ==
            IF matches THEN "[bold white on red]" \o role.name
            ELSE IF role.name = current_user THEN "[bold white on blue]" \o role.name
            ELSE role.name
        name_tuple == [role |-> role, display_name |-> display_name]
        acc1 == IF matches
                THEN [acc EXCEPT
                        !.detail_tree = [state |-> "tree",
                                         tree |-> Add(NewTree(display_name), "...")],
                        !.specific_item_is_super_user = role.is_super_user,
                        !.specific_item_is_login_user = role.can_login]
                ELSE acc
        bucket == RoleBucket(role)
    IN  [acc1 EXCEPT ![bucket] = Append(@, name_tuple)]

RECURSIVE RolesLoop(_, _, _, _, _, _, _)
RolesLoop(sorted, i, acc, current_user, lvl, specific_item_type, specific_item) ==
    IF i > Len(sorted) THEN acc
    ELSE RolesLoop(sorted, i + 1,
            RolesLoopBody(acc, sorted[i], current_user, lvl,
                          specific_item_type, specific_item),
            current_user, lvl, specific_item_type, specific_item)

DisplayNames(tuples) == [i \in 1..Len(tuples) |-> tuples[i].display_name]

SuperHeader(acc) == "Super-user roles (" \o ToString(Len(acc.super_user_roles)) \o "):"
LoginHeader(acc) == "Other login roles (" \o ToString(Len(acc.other_login_roles)) \o "):"
OtherHeader(acc) == "Other roles (" \o ToString(Len(acc.other_roles)) \o "):"

FailedToFindRole(specific_item) ==
    "[red on yellow]Failed to find role named " \o "\"" \o specific_item \o "\""

UnknownLevel(lvl) == "[red on yellow]Unknown level[/]: " \o lvl

\* The branch for level "overview" enumerating the other roles as well.
RolesOverviewWithOthers(t, acc) ==
    LET t1 == AddWithChildren(t, SuperHeader(acc), DisplayNames(acc.super_user_roles))
        t2 == AddWithChildren(t1, LoginHeader(acc), DisplayNames(acc.other_login_roles))
    IN  Returned(AddWithChildren(t2, OtherHeader(acc), DisplayNames(acc.other_roles)))

\* The branch for level "overview".
RolesOverview(t, acc) ==
    LET t1 == AddWithChildren(t, SuperHeader(acc), DisplayNames(acc.super_user_roles))
        t2 == AddWithChildren(t1, LoginHeader(acc), DisplayNames(acc.other_login_roles))
    IN  Returned(AddWithChildren(t2, OtherHeader(acc), <<>>))

\* The branch for level "specific" and selector kind "roles".
RolesAll(t, acc) ==
    LET t1 == AddWithChildren(t, SuperHeader(acc), DisplayNames(acc.super_user_roles))
        t2 == AddWithChildren(t1, LoginHeader(acc), DisplayNames(acc.other_login_roles))
    IN  Returned(AddWithChildren(t2, OtherHeader(acc), DisplayNames(acc.other_roles)))

\* The branch for level "specific" and selector kind "role".  Reading
\* detail_tree while it is unbound raises UnboundLocalError.
RolesSpecific(t, acc, specific_item) ==
    IF acc.detail_tree.state = "unbound" THEN Raised("UnboundLocalError")
    ELSE IF acc.detail_tree.state # "none"
    THEN LET d == <<acc.detail_tree.tree>>
             in_super == acc.specific_item_is_super_user
             in_login == ~in_super /\ acc.specific_item_is_login_user
             in_other == ~in_super /\ ~in_login
             t1 == AddWithTrees(t, SuperHeader(acc), IF in_super THEN d ELSE <<>>)
             t2 == AddWithTrees(t1, LoginHeader(acc), IF in_login THEN d ELSE <<>>)
         IN  Returned(AddWithTrees(t2, OtherHeader(acc), IF in_other THEN d ELSE <<>>))
    ELSE LET t1 == AddWithChildren(t, SuperHeader(acc), <<>>)
             t2 == AddWithChildren(t1, LoginHeader(acc), <<>>)
             t3 == AddWithChildren(t2, OtherHeader(acc), <<>>)
         IN  Returned(Add(t3, FailedToFindRole(specific_item)))

\* The last branch for level "specific" rendering the three headers.
RolesHeadersOnly(t, acc) ==
    LET t1 == AddWithChildren(t, SuperHeader(acc), <<>>)
        t2 == AddWithChildren(t1, LoginHeader(acc), <<>>)
    IN  Returned(AddWithChildren(t2, OtherHeader(acc), <<>>))

\* The last branch for level "specific", any other selector kind: "Nothing
\* more to add, just the basic count".
RolesCountOnly(t, acc) == Returned(t)

\* The three lists and the detail tree as the loop leaves them.
RoleBuckets(roles, current_user, lvl, specific_item_type, specific_item) ==
    RolesLoop(sort_roles_list(roles), 1, RolesLoopStart, current_user,
              lvl, specific_item_type, specific_item)

get_roles_tree(roles, current_user, lvl, specific_item_type, specific_item) ==
    LET acc == RoleBuckets(roles, current_user, lvl, specific_item_type,
                           specific_item)
        t == NewTree("[bold]Roles[/] (" \o ToString(Len(roles)) \o "):")
    IN  IF lvl = "overview" THEN RolesOverview(t, acc)
        ELSE IF lvl = "specific" /\ Lower(specific_item_type) = Codes("roles")
             THEN RolesAll(t, acc)
        ELSE IF lvl = "specific" /\ Lower(specific_item_type) = Codes("role")
             THEN RolesSpecific(t, acc, specific_item)
        ELSE IF lvl = "specific" THEN RolesCountOnly(t, acc)
        ELSE Returned(Add(t, UnknownLevel(lvl)))

-----------------------------------------------------------------------------
(* TablespaceInfo and get_tablespaces_tree                                  *)

TablespaceInfo(tablespace_name, size) ==
    [name |-> tablespace_name, size |-> size,
     file_location |-> "[yellow on red]????[/]"]

\* f"{size/1024/1024:.1f}": the quotient rounded to one decimal, ties to even.
FormatMB(size) ==
    LET q == (size * 10) \div (1024 * 1024)
        r == (size * 10) % (1024 * 1024)
        tenths == IF 2 * r > 1024 * 1024 \/ (2 * r = 1024 * 1024 /\ q % 2 = 1)
                  THEN q + 1 ELSE q
    IN  ToString(tenths \div 10) \o "." \o ToString(tenths % 10)

FailedToFindTablespace(detail) ==
    "[red on yellow]Failed to find tablespace named " \o "\"" \o detail \o "\""

\* The loop of level "3": every tablespace whose name matches detail is added
\* with its size and a "..." line; found tells whether detail_tree was set.
RECURSIVE TablespacesLoop(_, _, _, _)
TablespacesLoop(tss, i, detail, acc) ==
    IF i > Len(tss) THEN acc
    ELSE LET ts == tss[i] IN
         TablespacesLoop(tss, i + 1, detail,
            IF Upper(ts.name) = Upper(detail)
            THEN [found |-> TRUE,
                  t |-> AddWithChildren(acc.t,
                            "[bold white on red]" \o ts.name \o "[/]",
                            <<"size=" \o FormatMB(ts.size) \o " MB", "...">>)]
            ELSE acc)

get_tablespaces_tree(tss, lvl, detail) ==
    IF Len(tss) = 0
    THEN Returned(Tree("Tablespaces : <not visible from this session>", "dim"))
    ELSE LET t == NewTree("[bold]Tablespaces[/] (" \o ToString(Len(tss)) \o "):")
         IN  IF lvl = "2"
             THEN Returned([t EXCEPT !.children =
                     [i \in 1..Len(tss) |->
                         Tree("[bold]" \o tss[i].name \o "[/]", t.style)]])
             ELSE IF lvl = "3"
             THEN LET acc == TablespacesLoop(tss, 1, detail,
                                             [found |-> FALSE, t |-> t])
                  IN  IF ~acc.found
                      THEN Returned(Add(acc.t, FailedToFindTablespace(detail)))
                      ELSE Returned(acc.t)
             ELSE Returned(t)

-----------------------------------------------------------------------------
(* SchemaInfo and get_schemas_tree                                          *)

SchemaInfo(schema_name, tables_list, views_list, indexes_list) ==
    [name |-> schema_name, tables_list |-> tables_list,
     views_list |-> views_list, indexes_list |-> indexes_list]

system_schemas_list == {"information_schema", "pg_catalog", "pg_toast"}

is_system(schema) == schema.name \in system_schemas_list

SchemaNameForDisplay(schema) ==
    IF is_system(schema) THEN schema.name ELSE "[bold]" \o schema.name \o "[/]"

RECURSIVE SchemasLoop(_, _, _, _)
SchemasLoop(schemas, i, lvl, t) ==
    IF i > Len(schemas) THEN t
    ELSE LET schema == schemas[i] IN
         SchemasLoop(schemas, i + 1, lvl,
            IF lvl = "1"
            THEN Add(t, SchemaNameForDisplay(schema) \o " : tables="
                        \o ToString(Len(schema.tables_list)))
            ELSE IF lvl = "2"
            THEN AddWithChildren(t, SchemaNameForDisplay(schema),
                    <<"Tables (" \o ToString(Len(schema.tables_list)) \o "):",
                      "Views (" \o ToString(Len(schema.views_list)) \o "):">>)
            ELSE t)

get_schemas_tree(schemas, lvl) ==
    SchemasLoop(schemas, 1, lvl,
                NewTree("Schemas (" \o ToString(Len(schemas)) \o "):"))

-----------------------------------------------------------------------------
(* DatabaseInfo and get_databases_tree                                      *)

DatabaseInfo(database_name) == [name |-> database_name, schemas_list |-> <<>>]

set_schema_list(db, schemas) == [db EXCEPT !.schemas_list = schemas]

\* The level get_databases_tree passes to get_schemas_tree for the current
\* database.
SchemasLevel(db, lvl, detail_type, detail) ==
    IF lvl = "2" THEN "1"
    ELSE IF lvl = "3" /\ detail_type = "database" /\ detail = db.name THEN "2"
    ELSE "1"

\* The test made without regard to case.
IsCurrentDatabaseAnyCase(db, current_database) ==
    Lower(db.name) = Lower(current_database)

\* The test that tells the current database from the others.
IsCurrentDatabase(db, current_database) == db.name = current_database

RECURSIVE DatabasesLoop(_, _, _, _, _, _, _)
DatabasesLoop(dbs, i, current_database, lvl, detail_type, detail, t) ==
    IF i > Len(dbs) THEN t
    ELSE LET db == dbs[i] IN
         DatabasesLoop(dbs, i + 1, current_database, lvl, detail_type, detail,
            IF ~IsCurrentDatabase(db, current_database)
            THEN AddStyled(t, db.name \o " : <not visible from this session>", "dim")
            ELSE AddWithTrees(t, "[bold]" \o db.name \o "[/]",
                    <<get_schemas_tree(db.schemas_list,
                          SchemasLevel(db, lvl, detail_type, detail))>>))

get_databases_tree(dbs, current_database, lvl, detail_type, detail) ==
    LET dbs_tree == NewTree("[bold]Databases[/] (" \o ToString(Len(dbs)) \o "):")
    IN  IF lvl = "1" THEN Returned(dbs_tree)
        ELSE Returned(DatabasesLoop(dbs, 1, current_database, lvl, detail_type,
                                    detail, dbs_tree))

-----------------------------------------------------------------------------
(* get_system_tree, get_session_tree                                        *)

get_system_tree(b, lvl) ==
    IF lvl = "overview"
    THEN Returned(Add(Add(NewTree("[bold]System[/]:"),
                          "Cluster name: " \o b.cluster_name),
                      "Postgres version: " \o b.pg_version))
    ELSE IF lvl = "specific"
    THEN Returned(NewTree("[bold]System[/]: " \o b.cluster_name))
    ELSE Returned(Add(NewTree("[bold]System[/]: " \o b.cluster_name),
                      UnknownLevel(lvl)))

get_session_tree(b, lvl) ==
    IF lvl = "overview"
    THEN Returned(
            Add(Add(Add(Add(Add(NewTree("[bold]This session[/]:"),
                "Current user: " \o b.current_user),
                "Current database: " \o b.current_database),
                "Search path: " \o b.search_path),
                "Effective search path: " \o b.effective_search_path_list),
                "Psycopg version: " \o b.psycopg2_version))
    ELSE IF lvl = "specific"
    THEN Returned(NewTree("[bold]This session[/]: User = " \o b.current_user))
    ELSE Returned(Add(NewTree("[bold]This session[/]: User = " \o b.current_user),
                      UnknownLevel(lvl)))

-----------------------------------------------------------------------------
(* produce_tree.  The selector (option, option_detail) is set by two        *)
(* assignments at the top of the function; the model takes them as          *)
(* parameters, so that every selector the assignments can be edited to is   *)
(* covered, the pair in the source among them.                              *)

ProduceLevel(opt) == IF opt = "" THEN "overview" ELSE "specific"

TsLevel(lvl, opt) ==
    IF lvl = "1" /\ Lower(opt) \in {Codes("ts"), Codes("tablespace")}
    THEN "3" ELSE lvl

DbLevel(lvl, opt) ==
    IF lvl = "1" /\ Lower(opt) \in {Codes("db"), Codes("database")}
    THEN "3" ELSE lvl

produce_tree(b, roles, tss, dbs, opt, opt_detail) ==
    LET lvl == ProduceLevel(opt)
        my_tree == NewTree("[bold]Postgres Cluster[/]")
        system == get_system_tree(b, lvl)
        session == get_session_tree(b, lvl)
        roles_tree == get_roles_tree(roles, b.current_user, lvl, opt, opt_detail)
        tablespaces == get_tablespaces_tree(tss, TsLevel(lvl, opt), opt_detail)
        databases == get_databases_tree(dbs, b.current_database, DbLevel(lvl, opt),
                                        opt, opt_detail)
    IN  IF roles_tree.raised # "" THEN Raised(roles_tree.raised)
        ELSE Returned(
                AddTree(AddTree(AddTree(AddTree(AddTree(my_tree,
                    system.tree), session.tree), roles_tree.tree),
                    tablespaces.tree), databases.tree))

-----------------------------------------------------------------------------
(* What the server can return, and the arguments of direct calls.           *)

\* The elements of seq at the indices in S, in order.
RECURSIVE Pick(_, _, _)
Pick(seq, S, i) ==
    IF i > Len(seq) THEN <<>>
    ELSE (IF i \in S THEN <<seq[i]>> ELSE <<>>) \o Pick(seq, S, i + 1)

\* The sublists of seq of at most max elements.
SubLists(seq, max) ==
    {Pick(seq, S, 1) : S \in {T \in SUBSET (1..Len(seq)) : Cardinality(T) <= max}}

\* The names of a set in ascending order ("order by" in every catalog query).
RECURSIVE Ascending(_)
Ascending(S) ==
    IF S = {} THEN <<>>
    ELSE LET least == CHOOSE n \in S : \A m \in S \ {n} : StrLess(n, m)
         IN  <<least>> \o Ascending(S \ {least})

NameLists(names, max) ==
    {Ascending(S) : S \in {T \in SUBSET names : Cardinality(T) <= max}}

RoleNames ==
    {"alice", "Alice", "pg_monitor", "pg_signal_backend", "pg_read_all_data",
     "pg_write_all_data"}

\* Every role list of at most MaxRoles roles, in name order, any flags.
RoleLists ==
    UNION {{[i \in 1..Len(ns) |-> RoleInfo(ns[i], f[i][1], f[i][2])] :
                f \in [1..Len(ns) -> BOOLEAN \X BOOLEAN]} :
           ns \in NameLists(RoleNames, MaxRoles)}

CurrentUsers == {"alice", "pg_monitor"}

TablespaceNames == {"pg_default", "pg_global", "PG_DEFAULT"}
TablespaceSizes == {262144, 8388608}

TablespaceLists ==
    UNION {{[i \in 1..Len(ns) |-> TablespaceInfo(ns[i], z[i])] :
                z \in [1..Len(ns) -> TablespaceSizes]} :
           ns \in NameLists(TablespaceNames, MaxTablespaces)}

DatabaseNames == {"app", "App", "app_test", "postgres"}

DatabaseLists ==
    {[i \in 1..Len(ns) |-> DatabaseInfo(ns[i])] :
        ns \in NameLists(DatabaseNames, MaxDatabases)}

CurrentDatabases == {"app", "postgres"}

TableInfo(table_name, column_list, index_list) ==
    [name |-> table_name, column_list |-> column_list, index_list |-> index_list]

SchemaCatalog ==
    <<SchemaInfo("information_schema", <<>>, <<"columns">>, <<>>),
      SchemaInfo("pg_catalog",
                 <<TableInfo("pg_class", <<"oid", "relname">>, <<"pg_class_oid_index">>)>>,
                 <<"pg_roles", "pg_tables">>, <<"pg_class_oid_index">>),
      SchemaInfo("public", <<TableInfo("orders", <<"id">>, <<>>)>>, <<>>, <<>>)>>

SchemaLists == SubLists(SchemaCatalog, MaxSchemas)

\* The roles, tablespaces and databases of the server a run of main() talks to.
ServerRoles ==
    <<RoleInfo("alice", FALSE, TRUE), RoleInfo("pg_monitor", FALSE, FALSE),
      RoleInfo("pg_read_all_data", FALSE, FALSE)>>

ServerTablespaces ==
    <<TablespaceInfo("pg_default", 8388608), TablespaceInfo("pg_global", 262144)>>

ServerDatabases ==
    <<DatabaseInfo("App"), DatabaseInfo("app"), DatabaseInfo("app_test"),
      DatabaseInfo("postgres")>>

\* The selectors produce_tree is run with: none, the one in the source
\* ("role", "pg_read_all_data"), and others of each kind.
Selectors ==
    {<<"", "">>, <<"role", "pg_read_all_data">>, <<"role", "alice">>,
     <<"role", "nonexistent">>, <<"database", "app">>, <<"ts", "pg_default">>,
     <<"tablespace", "nonexistent">>}

\* (level, selector kind, selector name) given to get_roles_tree directly.
RoleSelections ==
    {<<"overview", "", "">>, <<"overview", "role", "alice">>,
     <<"specific", "", "">>, <<"specific", "roles", "">>,
     <<"specific", "database", "app">>,
     <<"specific", "role", "alice">>, <<"specific", "role", "ALICE">>,
     <<"specific", "Role", "Alice">>, <<"specific", "role", "pg_read_all_data">>,
     <<"specific", "role", "nonexistent">>, <<"2", "role", "alice">>,
     <<"bogus", "", "">>}

TablespaceLevels == {"overview", "specific", "1", "2", "3", "bogus"}
TablespaceDetails == {"pg_default", "PG_DEFAULT", "nonexistent"}

\* The levels the System and Session builders are called with.
SessionLevels == {"overview", "specific", "2", "bogus"}
ClusterNameSettings == {"", "main"}

DatabaseLevels == {"overview", "specific", "1", "2", "3", "bogus"}
DatabaseSelectors ==
    {<<"", "">>, <<"database", "app">>, <<"database", "APP">>,
     <<"database", "nonexistent">>, <<"role", "app">>}

-----------------------------------------------------------------------------
(* main(), one action per block.                                            *)

BasicSessionInfo ==
    [session_user |-> "", current_user |-> "", current_database |-> "",
     pg_version |-> "", search_path |-> "", effective_search_path_list |-> "",
     cluster_name |-> "", psycopg2_version |-> ""]

NoCall == Returned(NoTree)

Read(what, schema, table) == [read |-> what, schema |-> schema, table |-> table]

Init ==
    /\ pc = "start"
    /\ pgpw_set \in BOOLEAN
    /\ connects = 0
    /\ basics = BasicSessionInfo
    /\ roles_list = <<>>
    /\ ts_list = <<>>
    /\ db_list = <<>>
    /\ sc_list = <<>>
    /\ console = <<>>
    /\ reads = <<>>
    /\ fn = ""
    /\ level = ""
    /\ option = ""
    /\ option_detail = ""
    /\ result = NoCall

\* get_connection_string, its result tested without the return of line 509
GetConnectionStringNoReturn ==
    /\ pc = "start"
    /\ pc' = "connect"
    /\ console' = IF pgpw_set THEN console
                  ELSE Append(console, "** No PGPW environment variable set")
    /\ UNCHANGED <<pgpw_set, connects, basics, roles_list, ts_list, db_list, sc_list, reads,
                   fn, level, option, option_detail, result>>

\* get_connection_string and the test of its result
GetConnectionString ==
    /\ pc = "start"
    /\ IF pgpw_set
       THEN pc' = "connect" /\ console' = console
       ELSE /\ pc' = "stopped"
            /\ console' = Append(console, "** No PGPW environment variable set")
    /\ UNCHANGED <<pgpw_set, connects, basics, roles_list, ts_list, db_list, sc_list, reads,
                   fn, level, option, option_detail, result>>

\* psycopg2.connect inside try/except
Connect ==
    /\ pc = "connect"
    /\ connects' = connects + 1
    /\ \E connected \in BOOLEAN :
          IF connected
          THEN pc' = "read_session_basics" /\ console' = console
          ELSE /\ pc' = "stopped"
               /\ console' = Append(console, "[red]** failed to connect using[/red]")
    /\ UNCHANGED <<pgpw_set, basics, roles_list, ts_list, db_list, sc_list, reads,
                   fn, level, option, option_detail, result>>

\* read_session_basics: the cluster name falls back to a label made of the
\* server address when the setting is empty.
read_session_basics(user, database, cluster_name_setting) ==
    [session_user |-> user, current_user |-> user, current_database |-> database,
     pg_version |-> "PostgreSQL 15.2", search_path |-> "\"$user\", public",
     effective_search_path_list |-> "['pg_catalog', 'public']",
     cluster_name |-> IF cluster_name_setting = ""
                      THEN "<Unnamed cluster> @127.0.0.1/5432"
                      ELSE cluster_name_setting,
     psycopg2_version |-> "2.9.5"]

ReadSessionBasics ==
    /\ pc = "read_session_basics"
    /\ \E user \in CurrentUsers, database \in CurrentDatabases :
          basics' = read_session_basics(user, database, "")
    /\ reads' = Append(reads, Read("session_basics", "", ""))
    /\ pc' = "read_role_info"
    /\ UNCHANGED <<pgpw_set, connects, roles_list, ts_list, db_list, sc_list, console,
                   fn, level, option, option_detail, result>>

\* RoleInfo.read_role_info
ReadRoleInfo ==
    /\ pc = "read_role_info"
    /\ roles_list' \in SubLists(ServerRoles, MaxRoles)
    /\ reads' = Append(reads, Read("roles", "", ""))
    /\ pc' = "read_tablespace_info"
    /\ UNCHANGED <<pgpw_set, connects, basics, ts_list, db_list, sc_list, console,
                   fn, level, option, option_detail, result>>

\* TablespaceInfo.read_tablespace_info: what it returns when the query ends
\* with the given outcome; another error than InsufficientPrivilege is not
\* caught.
read_tablespace_info(outcome, rows) ==
    IF outcome = "rows" THEN [raised |-> "", list |-> rows]
    ELSE IF outcome = "InsufficientPrivilege" THEN [raised |-> "", list |-> <<>>]
    ELSE [raised |-> outcome, list |-> <<>>]

ReadTablespaceInfo ==
    /\ pc = "read_tablespace_info"
    /\ \E outcome \in {"rows", "InsufficientPrivilege", "OperationalError"},
          rows \in SubLists(ServerTablespaces, MaxTablespaces) \ {<<>>} :
          LET r == read_tablespace_info(outcome, rows) IN
          /\ outcome # "rows" => rows = ServerTablespaces
          /\ reads' = Append(reads, Read("tablespaces:" \o outcome, "", ""))
          /\ IF r.raised = ""
             THEN /\ ts_list' = r.list
                  /\ pc' = "read_database_info"
                  /\ result' = result
             ELSE /\ ts_list' = ts_list
                  /\ pc' = "failed"
                  /\ result' = Raised(r.raised)
    /\ UNCHANGED <<pgpw_set, connects, basics, roles_list, db_list, sc_list, console,
                   fn, level, option, option_detail>>

\* DatabaseInfo.read_database_info
ReadDatabaseInfo ==
    /\ pc = "read_database_info"
    /\ db_list' \in SubLists(ServerDatabases, MaxDatabases)
    /\ reads' = Append(reads, Read("databases", "", ""))
    /\ pc' = "read_schema_info"
    /\ UNCHANGED <<pgpw_set, connects, basics, roles_list, ts_list, sc_list, console,
                   fn, level, option, option_detail, result>>

\* The reads TableInfo.read_table_info_for_schema issues for the tables of a
\* schema: the tables, then each table's columns and indexes.
RECURSIVE TableReads(_, _, _)
TableReads(schema, tables, i) ==
    IF i > Len(tables) THEN <<>>
    ELSE <<Read("columns", schema, tables[i].name),
           Read("table_indexes", schema, tables[i].name)>>
         \o TableReads(schema, tables, i + 1)

\* The reads of read_schema_info with the columns and indexes of a
\* schema's tables asked for ahead of the tables themselves.
RECURSIVE SchemaReadsColumnsFirst(_, _)
SchemaReadsColumnsFirst(schemas, i) ==
    IF i > Len(schemas) THEN <<>>
    ELSE LET si == schemas[i] IN
         TableReads(si.name, si.tables_list, 1)
         \o <<Read("tables", si.name, "")>>
         \o <<Read("views", si.name, ""), Read("indexes", si.name, "")>>
         \o SchemaReadsColumnsFirst(schemas, i + 1)

\* The reads SchemaInfo.read_schema_info issues after the schema query.
RECURSIVE SchemaReads(_, _)
SchemaReads(schemas, i) ==
    IF i > Len(schemas) THEN <<>>
    ELSE LET si == schemas[i] IN
         <<Read("tables", si.name, "")>>
         \o TableReads(si.name, si.tables_list, 1)
         \o <<Read("views", si.name, ""), Read("indexes", si.name, "")>>
         \o SchemaReads(schemas, i + 1)

ReadSchemaInfo ==
    /\ pc = "read_schema_info"
    /\ \E l \in SchemaLists :
          /\ sc_list' = l
          /\ reads' = reads \o <<Read("schemas", "", "")>> \o SchemaReads(l, 1)
    /\ pc' = "attach_schemas"
    /\ UNCHANGED <<pgpw_set, connects, basics, roles_list, ts_list, db_list, console,
                   fn, level, option, option_detail, result>>

\* The loop looking for the current database without regard to case.
RECURSIVE FindCurrentDbAnyCase(_, _, _)
FindCurrentDbAnyCase(dbs, current_database, i) ==
    IF i > Len(dbs) THEN 0
    ELSE IF Lower(dbs[i].name) = Lower(current_database) THEN i
    ELSE FindCurrentDbAnyCase(dbs, current_database, i + 1)

\* The loop that looks for the current database, with its break: the index
\* of the first database of that name, 0 for None.
RECURSIVE FindCurrentDb(_, _, _)
FindCurrentDb(dbs, current_database, i) ==
    IF i > Len(dbs) THEN 0
    ELSE IF dbs[i].name = current_database THEN i
    ELSE FindCurrentDb(dbs, current_database, i + 1)

\* The attachment falling back on the first database when none is current.
AttachSchemaListOrFirst(dbs, current_database, schemas) ==
    LET found == FindCurrentDb(dbs, current_database, 1)
        current_db == IF found = 0 /\ Len(dbs) > 0 THEN 1 ELSE found
    IN  IF current_db # 0
        THEN [dbs |-> [dbs EXCEPT ![current_db] = set_schema_list(@, schemas)],
              warning |-> <<>>]
        ELSE [dbs |-> dbs,
              warning |-> <<"[red]** failed to identify the current database "
                            \o current_database>>]

\* "Attach the schema list to the info for the current database"
AttachSchemaList(dbs, current_database, schemas) ==
    LET current_db == FindCurrentDb(dbs, current_database, 1)
    IN  IF current_db # 0
        THEN [dbs |-> [dbs EXCEPT ![current_db] = set_schema_list(@, schemas)],
              warning |-> <<>>]
        ELSE [dbs |-> dbs,
              warning |-> <<"[red]** failed to identify the current database "
                            \o current_database>>]

AttachSchemas ==
    /\ pc = "attach_schemas"
    /\ LET a == AttachSchemaList(db_list, basics.current_database, sc_list) IN
          /\ db_list' = a.dbs
          /\ console' = console \o a.warning
    /\ pc' = "produce_tree"
    /\ UNCHANGED <<pgpw_set, connects, basics, roles_list, ts_list, sc_list, reads,
                   fn, level, option, option_detail, result>>

\* produce_tree(basics, roles_list, ts_list, db_list), then the end of main
ProduceTree ==
    /\ pc = "produce_tree"
    /\ \E sel \in Selectors :
          LET r == produce_tree(basics, roles_list, ts_list, db_list, sel[1], sel[2])
          IN  /\ fn' = "produce_tree"
              /\ option' = sel[1]
              /\ option_detail' = sel[2]
              /\ level' = ProduceLevel(sel[1])
              /\ result' = r
              /\ IF r.raised = ""
                 THEN pc' = "done" /\ console' = Append(console, "Cluster Summary")
                 ELSE pc' = "failed" /\ console' = console
    /\ UNCHANGED <<pgpw_set, connects, basics, roles_list, ts_list, db_list, sc_list, reads>>

Next ==
    \/ GetConnectionString
    \/ Connect
    \/ ReadSessionBasics
    \/ ReadRoleInfo
    \/ ReadTablespaceInfo
    \/ ReadDatabaseInfo
    \/ ReadSchemaInfo
    \/ AttachSchemas
    \/ ProduceTree

Spec == Init /\ [][Next]_vars

-----------------------------------------------------------------------------
(* The builders called directly.                                            *)

InitCalls ==
    /\ pc = "idle"
    /\ pgpw_set = TRUE
    /\ connects = 0
    /\ basics = BasicSessionInfo
    /\ roles_list = <<>>
    /\ ts_list = <<>>
    /\ db_list = <<>>
    /\ sc_list = <<>>
    /\ console = <<>>
    /\ reads = <<>>
    /\ fn = ""
    /\ level = ""
    /\ option = ""
    /\ option_detail = ""
    /\ result = NoCall

CallGetRolesTree ==
    /\ pc = "idle"
    /\ \E l \in RoleLists, user \in CurrentUsers, sel \in RoleSelections :
          /\ roles_list' = l
          /\ basics' = [basics EXCEPT !.current_user = user]
          /\ level' = sel[1]
          /\ option' = sel[2]
          /\ option_detail' = sel[3]
          /\ result' = get_roles_tree(l, user, sel[1], sel[2], sel[3])
    /\ fn' = "get_roles_tree"
    /\ pc' = "returned"
    /\ UNCHANGED <<pgpw_set, connects, ts_list, db_list, sc_list, console, reads>>

CallSummariseRoles ==
    /\ pc = "idle"
    /\ \E l \in RoleLists, user \in CurrentUsers :
          /\ roles_list' = l
          /\ basics' = [basics EXCEPT !.current_user = user]
          /\ result' = summarise_roles(l, user)
    /\ fn' = "summarise_roles"
    /\ pc' = "returned"
    /\ UNCHANGED <<pgpw_set, connects, ts_list, db_list, sc_list, console, reads,
                   level, option, option_detail>>

CallGetTablespacesTree ==
    /\ pc = "idle"
    /\ \E l \in TablespaceLists, lvl \in TablespaceLevels,
          detail \in TablespaceDetails :
          /\ ts_list' = l
          /\ level' = lvl
          /\ option_detail' = detail
          /\ result' = get_tablespaces_tree(l, lvl, detail)
    /\ fn' = "get_tablespaces_tree"
    /\ pc' = "returned"
    /\ UNCHANGED <<pgpw_set, connects, basics, roles_list, db_list, sc_list, console, reads,
                   option>>

CallGetDatabasesTree ==
    /\ pc = "idle"
    /\ \E l \in DatabaseLists, database \in CurrentDatabases, schemas \in SchemaLists,
          lvl \in DatabaseLevels, sel \in DatabaseSelectors :
          /\ basics' = [basics EXCEPT !.current_database = database]
          /\ sc_list' = schemas
          /\ db_list' = AttachSchemaList(l, database, schemas).dbs
          /\ level' = lvl
          /\ option' = sel[1]
          /\ option_detail' = sel[2]
          /\ result' = get_databases_tree(db_list', database, lvl, sel[1], sel[2])
    /\ fn' = "get_databases_tree"
    /\ pc' = "returned"
    /\ UNCHANGED <<pgpw_set, connects, roles_list, ts_list, console, reads>>

CallGetSystemTree ==
    /\ pc = "idle"
    /\ \E user \in CurrentUsers, database \in CurrentDatabases,
          setting \in ClusterNameSettings, lvl \in SessionLevels :
          /\ basics' = read_session_basics(user, database, setting)
          /\ level' = lvl
          /\ result' = get_system_tree(basics', lvl)
    /\ fn' = "get_system_tree"
    /\ pc' = "returned"
    /\ UNCHANGED <<pgpw_set, connects, roles_list, ts_list, db_list, sc_list, console,
                   reads, option, option_detail>>

CallGetSessionTree ==
    /\ pc = "idle"
    /\ \E user \in CurrentUsers, database \in CurrentDatabases,
          setting \in ClusterNameSettings, lvl \in SessionLevels :
          /\ basics' = read_session_basics(user, database, setting)
          /\ level' = lvl
          /\ result' = get_session_tree(basics', lvl)
    /\ fn' = "get_session_tree"
    /\ pc' = "returned"
    /\ UNCHANGED <<pgpw_set, connects, roles_list, ts_list, db_list, sc_list, console,
                   reads, option, option_detail>>

NextCalls ==
    \/ CallGetSystemTree
    \/ CallGetSessionTree
    \/ CallGetRolesTree
    \/ CallSummariseRoles
    \/ CallGetTablespacesTree
    \/ CallGetDatabasesTree

SpecCalls == InitCalls /\ [][NextCalls]_vars

-----------------------------------------------------------------------------
(* Reading a returned tree.                                                 *)

\* The k-th section of the cluster tree: the Tree the k-th add was given.
Section(k) == result.tree.children[k].inner[1]

Labels(nodes) == [i \in 1..Len(nodes) |-> nodes[i].label]

HasLeaf(t, label) == \E i \in 1..Len(t.children) : t.children[i].label = label

\* The number of roles of the list for which P holds.
CountRoles(roles, P(_)) == Cardinality({i \in 1..Len(roles) : P(roles[i])})

IsSuper(role) == role.is_super_user
IsOtherLogin(role) == ~role.is_super_user /\ role.can_login
IsOther(role) == ~role.is_super_user /\ ~role.can_login

SelectorMatchesNoRole ==
    \A i \in 1..Len(roles_list) : Lower(roles_list[i].name) # Lower(option_detail)

RoleDrillDown ==
    level = "specific" /\ Lower(option) = Codes("role")

-----------------------------------------------------------------------------
(* C1: whatever the role list and the selector, also a selector that names   *)
(* nothing, produce_tree returns normally and the cluster tree has exactly   *)
(* five sections, in the order System, Session, Roles, Tablespaces,          *)
(* Databases.                                                                *)

C1_ReportHasFiveSections ==
    fn = "produce_tree" =>
        /\ result.raised = ""
        /\ Len(result.tree.children) = 5
        /\ \A k \in 1..5 : Len(result.tree.children[k].inner) = 1
        /\ Section(1).label \in
              {"[bold]System[/]:", "[bold]System[/]: " \o basics.cluster_name}
        /\ Section(2).label \in
              {"[bold]This session[/]:",
               "[bold]This session[/]: User = " \o basics.current_user}
        /\ Section(3).label =
              "[bold]Roles[/] (" \o ToString(Len(roles_list)) \o "):"
        /\ Section(4).label \in
              {"Tablespaces : <not visible from this session>",
               "[bold]Tablespaces[/] (" \o ToString(Len(ts_list)) \o "):"}
        /\ Section(5).label =
              "[bold]Databases[/] (" \o ToString(Len(db_list)) \o "):"

(* C2: get_roles_tree at level specific with selector kind "role" and a      *)
(* name that matches no role returns a Roles tree whose root carries the     *)
(* leaf Failed to find role named "<name>"; it does not fail.                *)

C2_RoleMissIsALeaf ==
    (fn = "get_roles_tree" /\ RoleDrillDown /\ SelectorMatchesNoRole) =>
        /\ result.raised = ""
        /\ HasLeaf(result.tree, FailedToFindRole(option_detail))

(* C3: get_roles_tree puts every role in exactly one of the three lists --   *)
(* the super-user list if it is a superuser, else the other-login list if    *)
(* it can log in, else the other list -- whatever the level and selector;    *)
(* and when the three headers are rendered, their counts are the numbers of  *)
(* such roles and add up to the count at the Roles root.                     *)

Occurrences(tuples, role) ==
    Cardinality({j \in 1..Len(tuples) : tuples[j].role = role})

C3_BucketsPartitionRoles ==
    fn = "get_roles_tree" =>
        LET acc == RoleBuckets(roles_list, basics.current_user, level, option,
                               option_detail)
            a == CountRoles(roles_list, IsSuper)
            b == CountRoles(roles_list, IsOtherLogin)
            c == CountRoles(roles_list, IsOther)
        IN  /\ \A i \in 1..Len(roles_list) :
                 LET r == roles_list[i] IN
                 /\ Occurrences(acc.super_user_roles, r) = (IF IsSuper(r) THEN 1 ELSE 0)
                 /\ Occurrences(acc.other_login_roles, r) = (IF IsOtherLogin(r) THEN 1 ELSE 0)
                 /\ Occurrences(acc.other_roles, r) = (IF IsOther(r) THEN 1 ELSE 0)
            /\ Len(acc.super_user_roles) + Len(acc.other_login_roles)
                  + Len(acc.other_roles) = Len(roles_list)
            /\ (result.raised = "" /\ Len(result.tree.children) >= 3) =>
                 /\ SubSeq(Labels(result.tree.children), 1, 3) =
                       <<"Super-user roles (" \o ToString(a) \o "):",
                         "Other login roles (" \o ToString(b) \o "):",
                         "Other roles (" \o ToString(c) \o "):">>
                 /\ result.tree.label =
                       "[bold]Roles[/] (" \o ToString(a + b + c) \o "):"

C3_Witness ==
    /\ fn = "get_roles_tree"
    /\ result.raised = ""
    /\ Len(roles_list) = MaxRoles
    /\ Len(result.tree.children) >= 3
    /\ \E i, j, k \in 1..Len(roles_list) :
          /\ roles_list[i].is_super_user /\ roles_list[i].can_login
          /\ IsOtherLogin(roles_list[j])
          /\ IsOther(roles_list[k])

(* C4: when the tablespace query ends with InsufficientPrivilege, the       *)
(* tablespace list is empty, the run goes on to read the databases and the   *)
(* schemas and builds the report, whose Tablespaces section is the single    *)
(* dimmed node "not visible from this session" without children; any other   *)
(* error of that query ends the run.                                         *)

HasRead(what) == \E i \in 1..Len(reads) : reads[i].read = what

RunEnded == pc \in {"done", "failed", "stopped"}

C4_AccessDeniedStillReports ==
    /\ (HasRead("tablespaces:InsufficientPrivilege") /\ RunEnded) =>
          /\ ts_list = <<>>
          /\ HasRead("databases")
          /\ HasRead("schemas")
          /\ pc = "done"
          /\ result.raised = ""
          /\ Section(4) = Tree("Tablespaces : <not visible from this session>", "dim")
    /\ HasRead("tablespaces:OperationalError") =>
          /\ pc = "failed"
          /\ result.raised = "OperationalError"
          /\ ~HasRead("databases")

(* C5: at Overview level get_databases_tree adds one child per database; the *)
(* child has a nested Schemas tree exactly when the database's name equals   *)
(* the current database, case included, and is otherwise a dimmed leaf       *)
(* "<name> : <not visible from this session>" without children.              *)

C5_OverviewDatabases ==
    (fn = "get_databases_tree" /\ level \in {"overview", "2"}) =>
        /\ result.raised = ""
        /\ Len(result.tree.children) = Len(db_list)
        /\ \A i \in 1..Len(db_list) :
              LET db == db_list[i]
                  node == result.tree.children[i]
              IN  IF db.name = basics.current_database
                  THEN /\ node.label = "[bold]" \o db.name \o "[/]"
                       /\ Len(node.children) = 1
                       /\ Len(node.children[1].inner) = 1
                       /\ node.children[1].inner[1].label =
                             "Schemas (" \o ToString(Len(db.schemas_list)) \o "):"
                  ELSE /\ node.label = db.name \o " : <not visible from this session>"
                       /\ node.style = "dim"
                       /\ node.children = <<>>
                       /\ node.inner = <<>>

C5_Witness ==
    /\ fn = "get_databases_tree"
    /\ level = "overview"
    /\ Len(db_list) = 2
    /\ db_list[1].name = "App"
    /\ db_list[2].name = "app"
    /\ basics.current_database = "app"
    /\ sc_list # <<>>
    /\ Len(result.tree.children[2].children) = 1
    /\ result.tree.children[1].children = <<>>

(* C6: when no database of the list is named as the session's current       *)
(* database, the attachment step prints the "failed to identify the current  *)
(* database" warning and leaves the database list as it is, every database   *)
(* with an empty schema list; the run goes on to produce_tree, and no         *)
(* database of the report has a Schemas tree.                                 *)

NoCurrentDb ==
    \A i \in 1..Len(db_list) : db_list[i].name # basics.current_database

CurrentDbWarning ==
    "[red]** failed to identify the current database " \o basics.current_database

C6_UnknownCurrentDbOnlyWarns ==
    [][/\ (pc = "attach_schemas" /\ NoCurrentDb) =>
             /\ db_list' = db_list
             /\ console' = Append(console, CurrentDbWarning)
             /\ pc' = "produce_tree"
       /\ (pc = "produce_tree" /\ NoCurrentDb) =>
             /\ fn' = "produce_tree"
             /\ db_list' = db_list
             /\ \A i \in 1..Len(db_list') : db_list'[i].schemas_list = <<>>
             /\ \E i \in 1..Len(console') : console'[i] = CurrentDbWarning
             /\ result'.raised = "" =>
                   /\ pc' = "done"
                   /\ Len(result'.tree.children[5].inner[1].children) = Len(db_list)
                   /\ \A k \in 1..Len(db_list) :
                         LET node == result'.tree.children[5].inner[1].children[k]
                         IN  node.children = <<>> /\ node.inner = <<>>]_vars

C6_Witness ==
    /\ pc = "done"
    /\ NoCurrentDb
    /\ Len(db_list) = MaxDatabases
    /\ sc_list # <<>>
    /\ console = <<CurrentDbWarning, "Cluster Summary">>

(* The suppression policy for roles: a role is suppressed when its name      *)
(* starts with the system prefix and it is not the current role, not one of  *)
(* the two built-in data-access roles, cannot log in and is no superuser.    *)

Suppressed(role) ==
    /\ StartsWith(role.name, "pg")
    /\ role.name # basics.current_user
    /\ role.name \notin {"pg_read_all_data", "pg_write_all_data"}
    /\ ~role.can_login
    /\ ~role.is_super_user

Shown(role) == ~Suppressed(role)

\* The label a role is listed under when it is not the selected one.
ListedAs(role) ==
    IF role.name = basics.current_user
    THEN "[bold white on blue]" \o role.name
    ELSE role.name

\* The index of the bucket node of a role under the Roles root.
BucketIndex(role) ==
    IF role.is_super_user THEN 1 ELSE IF role.can_login THEN 2 ELSE 3

ListedUnder(t, b, role) ==
    /\ Len(t.children) >= b
    /\ HasLeaf(t.children[b], ListedAs(role))

ListedAnywhere(t, role) ==
    \E b \in 1..Len(t.children) : HasLeaf(t.children[b], ListedAs(role))

RoleSet == {roles_list[i] : i \in 1..Len(roles_list)}

(* C7, as claimed: at Overview level the Roles tree lists every Shown role   *)
(* under its bucket, the Other bucket included, lists no Suppressed role,    *)
(* and has a trailing suppressed-count line exactly when some role is        *)
(* suppressed.                                                               *)

C7_OverviewListsShownRoles ==
    (fn = "get_roles_tree" /\ level = "overview") =>
        /\ result.raised = ""
        /\ \A r \in RoleSet :
              IF Shown(r) THEN ListedUnder(result.tree, BucketIndex(r), r)
              ELSE ~ListedAnywhere(result.tree, r)
        /\ (Len(result.tree.children) > 3) <=> (CountRoles(roles_list, Suppressed) > 0)

(* C7, amended: at Overview level the Roles tree has the three bucket nodes  *)
(* and nothing after them; the Super-user and the Other-login node list      *)
(* each of their roles, in name order; the Other node carries its count and  *)
(* lists no role, Shown or Suppressed; no Suppressed role is listed.         *)

C7_OverviewListsLoginAndSuperRoles ==
    (fn = "get_roles_tree" /\ level = "overview") =>
        /\ result.raised = ""
        /\ Len(result.tree.children) = 3
        /\ Labels(result.tree.children[1].children) =
              Labels(SelectSeq([i \in 1..Len(roles_list) |->
                                  [label |-> ListedAs(roles_list[i]),
                                   role |-> roles_list[i]]],
                               LAMBDA x : IsSuper(x.role)))
        /\ Labels(result.tree.children[2].children) =
              Labels(SelectSeq([i \in 1..Len(roles_list) |->
                                  [label |-> ListedAs(roles_list[i]),
                                   role |-> roles_list[i]]],
                               LAMBDA x : IsOtherLogin(x.role)))
        /\ result.tree.children[3].children = <<>>
        /\ result.tree.children[3].label =
              "Other roles (" \o ToString(CountRoles(roles_list, IsOther)) \o "):"
        /\ \A r \in RoleSet : Suppressed(r) => ~ListedAnywhere(result.tree, r)

C7_Witness ==
    /\ fn = "get_roles_tree"
    /\ level = "overview"
    /\ result.raised = ""
    /\ \E r \in RoleSet : Shown(r) /\ IsOther(r)
    /\ \E r \in RoleSet : Suppressed(r)
    /\ \E r \in RoleSet : IsOtherLogin(r) /\ ListedUnder(result.tree, 2, r)

(* C8: summarise_roles leaves a role out of the listing exactly when it is   *)
(* suppressed; every other role has exactly one line; the trailing line      *)
(* counts the roles left out and is there only when there are some.  For     *)
(* alice (login), pg_monitor, pg_signal_backend and current user alice:      *)
(* alice is listed, highlighted, and the count is 2.                         *)

LinesOf(name) ==
    Cardinality({j \in 1..Len(result.lines) : result.lines[j].name = name})

CountLine(n) ==
    [name |-> "",
     text |-> ".. and " \o ToString(n) \o " other pg_xxx role"
              \o (IF n = 1 THEN "" ELSE "s")]

ExampleRoles ==
    <<RoleInfo("alice", FALSE, TRUE), RoleInfo("pg_monitor", FALSE, FALSE),
      RoleInfo("pg_signal_backend", FALSE, FALSE)>>

TablespaceDrillDown ==
    level = "specific" /\ Lower(option) \in {Codes("ts"), Codes("tablespace")}

MatchedTablespaces ==
    {i \in 1..Len(ts_list) : Upper(ts_list[i].name) = Upper(option_detail)}

C9_TablespacesListed ==
    (fn = "produce_tree" /\ result.raised = "" /\ ts_list # <<>>) =>
        IF TablespaceDrillDown
        THEN IF MatchedTablespaces = {}
             THEN HasLeaf(Section(4), FailedToFindTablespace(option_detail))
             ELSE \A i \in MatchedTablespaces :
                     \E k \in 1..Len(Section(4).children) :
                        /\ Section(4).children[k].label =
                              "[bold white on red]" \o ts_list[i].name \o "[/]"
                        /\ Labels(Section(4).children[k].children) =
                              <<"size=" \o FormatMB(ts_list[i].size) \o " MB", "...">>
        ELSE Labels(Section(4).children) =
                [i \in 1..Len(ts_list) |-> "[bold]" \o ts_list[i].name \o "[/]"]

(* C10: in the report built at Specific level, when the selector is of kind  *)
(* database and names the current database, each schema node of that         *)
(* database has a Tables-count and a Views-count child; for every other      *)
(* selector each schema is one line "name : tables=N" without children.      *)

CurrentDbIndex == FindCurrentDb(db_list, basics.current_database, 1)

\* The Schemas tree under the current database's node of the report.
ReportedSchemas == Section(5).children[CurrentDbIndex].children[1].inner[1]

DatabaseDrillDown ==
    /\ level = "specific"
    /\ Lower(option) \in {Codes("db"), Codes("database")}
    /\ option_detail = basics.current_database

C10_SelectedDatabaseExpanded ==
    (fn = "produce_tree" /\ result.raised = "" /\ level = "specific"
        /\ CurrentDbIndex # 0) =>
        /\ Len(ReportedSchemas.children) = Len(sc_list)
        /\ \A k \in 1..Len(sc_list) :
              LET node == ReportedSchemas.children[k]
                  schema == sc_list[k]
              IN  IF DatabaseDrillDown
                  THEN /\ node.label = SchemaNameForDisplay(schema)
                       /\ Labels(node.children) =
                             <<"Tables (" \o ToString(Len(schema.tables_list)) \o "):",
                               "Views (" \o ToString(Len(schema.views_list)) \o "):">>
                  ELSE /\ node.label = SchemaNameForDisplay(schema) \o " : tables="
                                       \o ToString(Len(schema.tables_list))
                       /\ node.children = <<>>

-----------------------------------------------------------------------------
(* C11, as stated: get_roles_tree at level specific with a selector kind     *)
(* other than "role", or with none, returns a Roles tree made of the three   *)
(* bucket headers with their counts, and no role is listed under any of      *)
(* them.                                                                     *)

BucketHeaders ==
    <<"Super-user roles (" \o ToString(CountRoles(roles_list, IsSuper)) \o "):",
      "Other login roles (" \o ToString(CountRoles(roles_list, IsOtherLogin)) \o "):",
      "Other roles (" \o ToString(CountRoles(roles_list, IsOther)) \o "):">>

RolesRootLabel == "[bold]Roles[/] (" \o ToString(Len(roles_list)) \o "):"

C11_OtherKindShowsBucketHeaders ==
    (fn = "get_roles_tree" /\ level = "specific" /\ Lower(option) # Codes("role")) =>
        /\ result.raised = ""
        /\ Labels(result.tree.children) = BucketHeaders
        /\ \A k \in 1..Len(result.tree.children) :
              result.tree.children[k].children = <<>>

(* C11, amended: with a selector kind that is neither "role" nor "roles"     *)
(* (letter case ignored), or with none, the Roles tree is the root with the  *)
(* total count alone, without bucket headers; with the kind "roles" the      *)
(* three headers are there and every role is listed under its bucket.        *)

C11_OtherKindShowsCountOnly ==
    (fn = "get_roles_tree" /\ level = "specific" /\ Lower(option) # Codes("role")) =>
        /\ result.raised = ""
        /\ result.tree.label = RolesRootLabel
        /\ IF Lower(option) = Codes("roles")
           THEN /\ Labels(result.tree.children) = BucketHeaders
                /\ Len(result.tree.children[1].children)
                      + Len(result.tree.children[2].children)
                      + Len(result.tree.children[3].children) = Len(roles_list)
           ELSE result.tree.children = <<>>

C11_Witness ==
    /\ fn = "get_roles_tree"
    /\ level = "specific"
    /\ option = "database"
    /\ Len(roles_list) = MaxRoles
    /\ result.raised = ""
    /\ result.tree.children = <<>>

-----------------------------------------------------------------------------
(* C12: each of the five builders (System, Session, Roles, Tablespaces,      *)
(* Databases), called with a level that is neither overview nor specific     *)
(* (nor one of the numeric levels the older builders know), returns          *)
(* normally a tree that has the child "Unknown level: <level>".              *)

Builders ==
    {"get_system_tree", "get_session_tree", "get_roles_tree",
     "get_tablespaces_tree", "get_databases_tree"}

KnownLevels == {"overview", "specific", "1", "2", "3"}

C12_UnknownLevelIsWarned ==
    (fn \in Builders /\ level \notin KnownLevels) =>
        /\ result.raised = ""
        /\ HasLeaf(result.tree, UnknownLevel(level))

-----------------------------------------------------------------------------
(* C13: without the PGPW variable the run prints the condition and stops     *)
(* at once: no connect, no catalog read and no report build ever happens;    *)
(* when the connection attempt fails the run prints the failure and stops:   *)
(* there is one attempt only, no catalog read and no report build; and a     *)
(* stopped run takes no further step.                                        *)

Printed(message) == \E i \in 1..Len(console) : console[i] = message

NoCatalogWork == reads = <<>> /\ fn = "" /\ result = NoCall

ConnectFailed == Printed("[red]** failed to connect using[/red]")

C13_StopsOnMissingCredentialOrFailedConnect ==
    [][/\ pc # "stopped"
       /\ connects' <= 1
       /\ ~pgpw_set =>
            /\ pc' = "stopped"
            /\ console' = <<"** No PGPW environment variable set">>
            /\ connects' = 0
            /\ NoCatalogWork'
       /\ ConnectFailed' =>
            /\ pc' = "stopped"
            /\ connects' = 1
            /\ NoCatalogWork']_vars

C13_Witness ==
    /\ ~pgpw_set
    /\ pc = "stopped"
    /\ Printed("** No PGPW environment variable set")
    /\ connects = 0

-----------------------------------------------------------------------------
(* C14: the catalog reads of a run come in dependency order -- the session   *)
(* basics, the roles, the tablespaces, the databases, the schemas, then the  *)
(* reads per schema, the tables of a schema ahead of the columns and the     *)
(* indexes of each of its tables; produce_tree is called only when every     *)
(* read is done and the schema list is attached; and from the call of        *)
(* produce_tree on, the model (basics and the four lists) does not change.   *)

\* The place of a read in the order of main (536-563).
Stage(r) ==
    CASE r.read = "session_basics" -> 1
      [] r.read = "roles" -> 2
      [] r.read \in {"tablespaces:rows", "tablespaces:InsufficientPrivilege",
                     "tablespaces:OperationalError"} -> 3
      [] r.read = "databases" -> 4
      [] r.read = "schemas" -> 5
      [] OTHER -> 6

ReadBefore(r, i) == \E j \in 1..(i - 1) : reads[j] = r

DependencyOrder ==
    \A i \in 1..Len(reads) :
        /\ Stage(reads[i]) = (IF i < 6 THEN i ELSE 6)
        /\ reads[i].read \in {"columns", "table_indexes"} =>
              ReadBefore(Read("tables", reads[i].schema, ""), i)
        /\ reads[i].read = "table_indexes" =>
              ReadBefore(Read("columns", reads[i].schema, reads[i].table), i)

HasReadOf(r) == \E i \in 1..Len(reads) : reads[i] = r

AllReadsDone ==
    /\ \A what \in {"session_basics", "roles", "databases", "schemas"} :
          HasReadOf(Read(what, "", ""))
    /\ \E i \in 1..Len(reads) : Stage(reads[i]) = 3
    /\ \A k \in 1..Len(sc_list) :
          LET si == sc_list[k] IN
          /\ \A what \in {"tables", "views", "indexes"} :
                HasReadOf(Read(what, si.name, ""))
          /\ \A t \in 1..Len(si.tables_list) :
                /\ HasReadOf(Read("columns", si.name, si.tables_list[t].name))
                /\ HasReadOf(Read("table_indexes", si.name, si.tables_list[t].name))

\* The attachment loop has run: running it again changes nothing, and it is
\* the current database, if listed, that has the schema list.
AttachmentDone ==
    /\ pc \notin {"start", "connect", "read_session_basics", "read_role_info",
                  "read_tablespace_info", "read_database_info",
                  "read_schema_info", "attach_schemas"}
    /\ AttachSchemaList(db_list, basics.current_database, sc_list).dbs = db_list

C14_ReadsInOrderThenReadOnlyModel ==
    [][/\ DependencyOrder'
       /\ fn' = "produce_tree" =>
             /\ pc = "produce_tree"
             /\ AllReadsDone
             /\ AttachmentDone
       /\ (pc = "produce_tree" \/ fn = "produce_tree") =>
             UNCHANGED <<basics, roles_list, ts_list, db_list, sc_list, reads>>]_vars

C14_Witness ==
    /\ pc = "done"
    /\ fn = "produce_tree"
    /\ Len(sc_list) = MaxSchemas
    /\ \E i \in 1..Len(reads) : reads[i].read = "table_indexes"
    /\ CurrentDbIndex # 0
    /\ db_list[CurrentDbIndex].schemas_list = sc_list

-----------------------------------------------------------------------------
(* C15: when several roles of the list match the selector name, letter case  *)
(* ignored, the role drill-down of get_roles_tree returns normally, and the  *)
(* detail tree it renders is that of the first matching role in list order,  *)
(* placed under the bucket of that first role and under no other.            *)

MatchingRoles ==
    {i \in 1..Len(roles_list) : Lower(roles_list[i].name) = Lower(option_detail)}

FirstMatch ==
    roles_list[CHOOSE i \in MatchingRoles : \A j \in MatchingRoles : i <= j]

C15_FirstMatchWins ==
    (fn = "get_roles_tree" /\ RoleDrillDown /\ Cardinality(MatchingRoles) >= 2) =>
        /\ result.raised = ""
        /\ Len(result.tree.children) = 3
        /\ \A b \in 1..3 :
              LET under == result.tree.children[b].children IN
              IF b = BucketIndex(FirstMatch)
              THEN /\ Len(under) = 1
                   /\ Len(under[1].inner) = 1
                   /\ under[1].inner[1].label =
                         "[bold white on red]" \o FirstMatch.name
              ELSE under = <<>>

-----------------------------------------------------------------------------
(* C16: a selector name that differs from the name of a role, a tablespace   *)
(* or the current database in letter case only selects it -- the role's      *)
(* detail tree is rendered, the tablespace is expanded, the database's       *)
(* schemas are shown with their Tables and Views counts --; whereas a role   *)
(* is highlighted as the current user, and a database rendered as the        *)
(* current database, only when its name equals the session's value exactly.  *)

SameIgnoringCase(a, b) == Lower(a) = Lower(b)

\* The detail trees rendered under the three bucket headers.
RenderedDetailLabels ==
    {result.tree.children[b].children[k].inner[1].label :
        <<b, k>> \in {p \in (1..3) \X (1..1) :
                        /\ Len(result.tree.children) >= p[1]
                        /\ Len(result.tree.children[p[1]].children) >= p[2]
                        /\ Len(result.tree.children[p[1]].children[p[2]].inner) = 1}}

RoleSelectedIgnoringCase ==
    (fn = "get_roles_tree" /\ RoleDrillDown /\ MatchingRoles # {}) =>
        /\ result.raised = ""
        /\ \E i \in MatchingRoles :
              "[bold white on red]" \o roles_list[i].name \in RenderedDetailLabels

TablespaceSelectedIgnoringCase ==
    (fn = "get_tablespaces_tree" /\ level = "3") =>
        \A i \in 1..Len(ts_list) :
            SameIgnoringCase(ts_list[i].name, option_detail) =>
                \E k \in 1..Len(result.tree.children) :
                    /\ result.tree.children[k].label =
                          "[bold white on red]" \o ts_list[i].name \o "[/]"
                    /\ Len(result.tree.children[k].children) = 2

DatabaseSelectedIgnoringCase ==
    (fn = "get_databases_tree" /\ level = "3" /\ option = "database") =>
        \A i \in 1..Len(db_list) :
            (/\ db_list[i].name = basics.current_database
             /\ SameIgnoringCase(db_list[i].name, option_detail)) =>
                LET shown == result.tree.children[i].children[1].inner[1].children
                    schemas == db_list[i].schemas_list
                IN  /\ Len(shown) = Len(schemas)
                    /\ \A k \in 1..Len(schemas) :
                          /\ shown[k].label = SchemaNameForDisplay(schemas[k])
                          /\ Len(shown[k].children) = 2

HighlightIsExactCase ==
    /\ fn = "get_roles_tree" =>
          \A i \in 1..Len(roles_list), b \in 1..Len(result.tree.children) :
              HasLeaf(result.tree.children[b],
                      "[bold white on blue]" \o roles_list[i].name)
                  => roles_list[i].name = basics.current_user
    /\ (fn = "get_databases_tree" /\ level # "1") =>
          \A i \in 1..Len(db_list) :
              result.tree.children[i].label = "[bold]" \o db_list[i].name \o "[/]"
                  <=> db_list[i].name = basics.current_database

C16_SelectorsIgnoreCaseHighlightsDoNot ==
    /\ RoleSelectedIgnoringCase
    /\ TablespaceSelectedIgnoringCase
    /\ DatabaseSelectedIgnoringCase
    /\ HighlightIsExactCase

-----------------------------------------------------------------------------
(* C17: once the attachment loop of main has run, the schema list is on at   *)
(* most one database: the first of the list whose name is exactly the        *)
(* session's current_database; every other database -- one of the same name  *)
(* in another letter case, or a later one of the same name -- has an empty   *)
(* schema list, until the run ends.                                          *)

AfterAttachment ==
    \/ pc \in {"produce_tree", "done"}
    \/ pc = "failed" /\ fn = "produce_tree"

\* Whether dbs[i] is the first database named exactly as the current one.
FirstExactMatch(dbs, i) ==
    /\ dbs[i].name = basics.current_database
    /\ \A j \in 1..(i - 1) : dbs[j].name # basics.current_database

OnlyFirstExactMatchAttached(dbs) ==
    \A i \in 1..Len(dbs) :
        dbs[i].schemas_list = IF FirstExactMatch(dbs, i) THEN sc_list ELSE <<>>

\* The list as read, every database listed twice.
Detached(dbs) == [i \in 1..Len(dbs) |-> DatabaseInfo(dbs[i].name)]

Twice(dbs) == Detached(dbs) \o Detached(dbs)

C17_SchemasOnFirstExactMatchOnly ==
    IF AfterAttachment
    THEN /\ OnlyFirstExactMatchAttached(db_list)
         /\ OnlyFirstExactMatchAttached(
               AttachSchemaList(Twice(db_list), basics.current_database, sc_list).dbs)
    ELSE \A i \in 1..Len(db_list) : db_list[i].schemas_list = <<>>

C17_Witness ==
    /\ pc = "done"
    /\ basics.current_database = "app"
    /\ Len(db_list) = 2
    /\ db_list[1].name = "App" /\ db_list[1].schemas_list = <<>>
    /\ db_list[2].name = "app" /\ db_list[2].schemas_list = sc_list
    /\ sc_list # <<>>

=============================================================================
